---- MODULE Spec2Model ----
(***************************************************************************)
(* Model of test-cases/generate_test_case.py: the driver that compiles,    *)
(* runs and proves a Cairo v0 program, the extraction of the step count    *)
(* from the report of cairo-run, and the computation of the FRI step list. *)
(***************************************************************************)
EXTENDS Integers, Sequences, FiniteSets, TLC

VARIABLES
    pc,          \* position of main(): the stage about to run, "done" or "failed"
    args,        \* the parsed command line: program, program_input, output_dir
    ftype,       \* the file system before the run: type of each path the run looks at
    dirs,        \* directories created by this run
    written,     \* files written during this run: pairs <<writer, path>>
    calls,       \* subprocess.run invocations, in order, with their return codes
    stages,      \* stages main() has started, in order, with their outcome
    artifacts,   \* the ExecutionArtifacts returned by run_cairo_program, or NoValue
    provercfg,   \* the pair of paths returned by generate_prover_config, or NoValue
    parameters,  \* the parameters document written by generate_prover_config, or NoValue
    exc,         \* the exception that ended the run, or "None"
    stdout,      \* what the driver printed
    fri,         \* compute_fri_step_list harness: inputs, result, position
    ext          \* get_nb_steps harness: report, result, position

vars == <<pc, args, ftype, dirs, written, calls, stages, artifacts, provercfg,
          parameters, exc, stdout, fri, ext>>

pipelineVars == <<pc, args, ftype, dirs, written, calls, stages, artifacts,
                  provercfg, parameters, exc, stdout>>

NoValue == [none |-> TRUE]

(***************************************************************************)
(* Bounds of the model.                                                    *)
(***************************************************************************)
MaxSteps == 20
MaxBound == 4
MaxLines == 2

(***************************************************************************)
(* compute_fri_step_list                                                   *)
(***************************************************************************)
RECURSIVE Pow2(_)
Pow2(k) == IF k = 0 THEN 1 ELSE 2 * Pow2(k - 1)

RECURSIVE CeilLog2From(_, _)
CeilLog2From(n, k) == IF Pow2(k) >= n THEN k ELSE CeilLog2From(n, k + 1)

\* The least k with 2^k >= n: the exact value of ceil(log2(n)), n >= 1.
CeilLog2(n) == CeilLog2From(n, 0)

\* math.log(x, 2) is the quotient of two rounded doubles, log(x) / log(2).
\* For x = 2^29 the quotient is 29.000000000000004, so its ceiling is 30;
\* for every other x in 1 .. 2^30 the ceiling of the quotient is exact.
FloatLogOvershoot == {Pow2(29)}

MathCeilLog2(x) == IF x \in FloatLogOvershoot THEN CeilLog2(x) + 1 ELSE CeilLog2(x)

Repeat(v, q) == [i \in 1..q |-> v]

RECURSIVE SeqSum(_)
SeqSum(s) == IF s = <<>> THEN 0 ELSE Head(s) + SeqSum(Tail(s))

Returned(v) == [exc |-> "None", value |-> v]
Raised(e) == [exc |-> e]

\* math.log raises ValueError (math domain error) for an argument <= 0.
compute_fri_step_list(nb_steps, last_layer_degree_bound) ==
    IF nb_steps <= 0 \/ last_layer_degree_bound <= 0
    THEN Raised("ValueError")
    ELSE LET program_n_steps_log == MathCeilLog2(nb_steps)
             last_layer_degree_bound_log == MathCeilLog2(last_layer_degree_bound)
             sigma_fri_step_list == program_n_steps_log + 4 - last_layer_degree_bound_log
             q == sigma_fri_step_list \div 4
             r == sigma_fri_step_list % 4
             fri_step_list == Repeat(4, q)
         IN  Returned(IF r > 0 THEN Append(fri_step_list, r) ELSE fri_step_list)

StepCounts == (1..MaxSteps) \cup {512, 777, 1024, Pow2(29) - 1, Pow2(29), Pow2(29) + 1}
DegreeBounds == (1..MaxBound) \cup {64, 128, 256}

InitFri ==
    \E n \in StepCounts, b \in DegreeBounds :
        fri = [nb_steps |-> n, last_layer_degree_bound |-> b,
               result |-> NoValue, pc |-> "call"]

\* One call of compute_fri_step_list on the drawn arguments.
FriCall ==
    /\ fri.pc = "call"
    /\ fri' = [fri EXCEPT !.result = compute_fri_step_list(fri.nb_steps,
                                                           fri.last_layer_degree_bound),
                          !.pc = "returned"]

(***************************************************************************)
(* get_nb_steps                                                            *)
(***************************************************************************)
NL == "\n"

\* The literal the regular expression starts with: "Number of steps: ".
PREFIX == <<"N", "u", "m", "b", "e", "r", " ", "o", "f", " ",
            "s", "t", "e", "p", "s", ":", " ">>

DigitVal == [c \in {"0", "1", "2", "3", "4", "5", "6", "7", "8", "9"} |->
               CASE c = "0" -> 0 [] c = "1" -> 1 [] c = "2" -> 2 [] c = "3" -> 3
                 [] c = "4" -> 4 [] c = "5" -> 5 [] c = "6" -> 6 [] c = "7" -> 7
                 [] c = "8" -> 8 [] c = "9" -> 9]

IsDigit(c) == c \in DOMAIN DigitVal

RECURSIVE FirstIndexOf(_, _, _)
FirstIndexOf(s, c, i) ==
    IF i > Len(s) THEN 0 ELSE IF s[i] = c THEN i ELSE FirstIndexOf(s, c, i + 1)

\* str.splitlines(): no line for the empty string, none after a final newline.
RECURSIVE splitlines(_)
splitlines(s) ==
    IF s = <<>> THEN <<>>
    ELSE LET i == FirstIndexOf(s, NL, 1)
         IN  IF i = 0 THEN <<s>>
             ELSE <<SubSeq(s, 1, i - 1)>> \o splitlines(SubSeq(s, i + 1, Len(s)))

\* The greedy group (\d+): the longest run of digits at the start of s.
RECURSIVE DigitRun(_)
DigitRun(s) ==
    IF s # <<>> /\ IsDigit(Head(s)) THEN <<Head(s)>> \o DigitRun(Tail(s)) ELSE <<>>

RECURSIVE IntOf(_)
IntOf(ds) ==
    IF ds = <<>> THEN 0 ELSE 10 * IntOf(SubSeq(ds, 1, Len(ds) - 1)) + DigitVal[ds[Len(ds)]]

\* re.match(r"Number of steps: (\d+).*", line): anchored at the start of the line.
ReMatch(line) ==
    /\ Len(line) > Len(PREFIX)
    /\ SubSeq(line, 1, Len(PREFIX)) = PREFIX
    /\ IsDigit(line[Len(PREFIX) + 1])

Group1(line) == DigitRun(SubSeq(line, Len(PREFIX) + 1, Len(line)))

\* A scan that keeps the last matching line instead of the first.
RECURSIVE ScanLinesLast(_)
ScanLinesLast(lines) ==
    IF lines = <<>> THEN Raised("ValueError")
    ELSE IF ReMatch(lines[Len(lines)]) THEN Returned(IntOf(Group1(lines[Len(lines)])))
    ELSE ScanLinesLast(SubSeq(lines, 1, Len(lines) - 1))

RECURSIVE ScanLines(_)
ScanLines(lines) ==
    IF lines = <<>> THEN Raised("ValueError")
    ELSE IF ReMatch(Head(lines)) THEN Returned(IntOf(Group1(Head(lines))))
    ELSE ScanLines(Tail(lines))

get_nb_steps(run_stdout) == ScanLines(splitlines(run_stdout))

\* The lines a report is made of: the step-count line and near misses of it.
Leads == {<<>>, <<" ">>}
Labels == {PREFIX, SubSeq(PREFIX, 1, Len(PREFIX) - 1)}
DigitStrings == {<<>>, <<"0">>, <<"7">>, <<"1", "2">>, <<"7", "7", "7">>}
Trails == {<<>>, <<" ", "(", "x", ")">>}
ReportLines == {a \o b \o c \o d : a \in Leads, b \in Labels, c \in DigitStrings, d \in Trails}
                  \cup {<<>>}

RECURSIVE JoinLines(_)
JoinLines(ls) == IF ls = <<>> THEN <<>> ELSE Head(ls) \o <<NL>> \o JoinLines(Tail(ls))

LineSeqs(n) == UNION {[1..k -> ReportLines] : k \in 0..n}
Reports == {JoinLines(ls) : ls \in LineSeqs(MaxLines)}

\* ext.lines remembers the lines the report was printed from.
InitExt ==
    \E ls \in LineSeqs(MaxLines) :
        ext = [lines |-> ls, run_stdout |-> JoinLines(ls), result |-> NoValue, pc |-> "call"]

\* One call of get_nb_steps on the drawn report.
ExtCall ==
    /\ ext.pc = "call"
    /\ ext' = [ext EXCEPT !.result = get_nb_steps(ext.run_stdout), !.pc = "returned"]

(***************************************************************************)
(* The driver: main() and the functions it calls.                          *)
(***************************************************************************)
\* A path is a directory and a file name; a file name is <<stem, suffix>>.
Join(dir, name) == [dir |-> dir, name |-> name]
Stem(path) == path.name[1]

FileTypes == {"file", "dir", "missing"}
ProgramPaths == {Join("in", <<"prog", ".cairo">>), Join("out", <<"prog", ".cairo">>)}
InputPaths == {Join("in", <<"input", ".json">>)}
OutputDirs == {"out"}

LastLayerDegreeBound == 64
NQueries == 18
ProofOfWorkBits == 24
LogNCosets == 4

\* What cairo-run may print: the reports of at most one line.
ToolReports == {JoinLines(ls) : ls \in LineSeqs(1)}
ReturnCodes == {0, 1}

\* An argument the command line does not give: args.program_input, args.output_dir.
NoPath == Join("None", <<"None", "">>)
NoDir == "None"
GivenPath(p) == p # NoPath
GivenDir(d) == d # NoDir

InitDriver ==
    /\ pc = "validate"
    /\ args \in [program : ProgramPaths,
                 program_input : InputPaths \cup {NoPath},
                 output_dir : OutputDirs \cup {NoDir}]
    /\ ftype \in [program : FileTypes, program_input : FileTypes, output_dir : FileTypes]
    \* a program that exists inside the output directory implies the directory
    /\ (args.program.dir = args.output_dir /\ ftype.program # "missing")
          => ftype.output_dir = "dir"
    /\ (~GivenPath(args.program_input)) => ftype.program_input = "missing"
    /\ (~GivenDir(args.output_dir)) => ftype.output_dir = "missing"
    /\ dirs = {}
    /\ written = {}
    /\ calls = <<>>
    /\ stages = <<>>
    /\ artifacts = NoValue
    /\ provercfg = NoValue
    /\ parameters = NoValue
    /\ exc = "None"
    /\ stdout = <<>>

Stage(name, ok) == [name |-> name, ok |-> ok]

\* The files a writer leaves behind.
Wrote(writer, paths) == {<<writer, p>> : p \in paths}
WrittenBy(writer) == {w[2] : w \in {x \in written : x[1] = writer}}
WrittenPaths == {w[2] : w \in written}

\* An exception leaves main(): nothing catches it.
Raise(name, e) ==
    /\ pc' = "failed"
    /\ exc' = e
    /\ stages' = Append(stages, Stage(name, FALSE))

Proceed(name, next) ==
    /\ pc' = next
    /\ exc' = exc
    /\ stages' = Append(stages, Stage(name, TRUE))

\* Local variables of main(), functions of the command line.
program_path == args.program
program_input_path == args.program_input
program_name == Stem(program_path)
output_dir == args.output_dir
compiled_program_path == Join(output_dir, <<program_name, "_compiled.json">>)
proof_file == Join(output_dir, <<program_name, "_proof.json">>)

\* A validation that forgets the program input.
ValidateProgramOnly ==
    /\ pc = "validate"
    /\ IF ftype.program # "file"
       THEN Raise("validate", "RuntimeError")
       ELSE Proceed("validate", "mkdir")
    /\ UNCHANGED <<args, ftype, dirs, written, calls, artifacts, provercfg,
                   parameters, stdout, fri, ext>>

\* main(), lines 217-225: both paths are checked before anything is done.
ValidateInputs ==
    /\ pc = "validate"
    /\ IF ftype.program # "file"
       THEN Raise("validate", "RuntimeError")
       ELSE IF GivenPath(program_input_path) /\ ftype.program_input # "file"
       THEN Raise("validate", "RuntimeError")
       ELSE Proceed("validate", "mkdir")
    /\ UNCHANGED <<args, ftype, dirs, written, calls, artifacts, provercfg,
                   parameters, stdout, fri, ext>>

\* Path(args.output_dir); output_dir.mkdir(parents=True, exist_ok=True)
MakeOutputDir ==
    /\ pc = "mkdir"
    /\ IF ~GivenDir(args.output_dir)
       THEN Raise("mkdir", "TypeError") /\ dirs' = dirs
       ELSE IF ftype.output_dir = "file"
       THEN Raise("mkdir", "FileExistsError") /\ dirs' = dirs
       ELSE /\ Proceed("mkdir", "copy")
            /\ dirs' = IF ftype.output_dir = "missing" THEN dirs \cup {output_dir} ELSE dirs
    /\ UNCHANGED <<args, ftype, written, calls, artifacts, provercfg,
                   parameters, stdout, fri, ext>>

\* shutil.copy2(program_path, output_dir), SameFileError swallowed.
CopyProgram ==
    /\ pc = "copy"
    /\ IF program_path.dir = output_dir
       THEN Proceed("copy", "compile") /\ written' = written
       ELSE \E ok \in BOOLEAN :
              IF ok
              THEN /\ Proceed("copy", "compile")
                   /\ written' = written \cup Wrote("copy2", {Join(output_dir, program_path.name)})
              ELSE Raise("copy", "OSError") /\ written' = written
    /\ UNCHANGED <<args, ftype, dirs, calls, artifacts, provercfg,
                   parameters, stdout, fri, ext>>

Call(tool, argv, rc, out) == [tool |-> tool, argv |-> argv, returncode |-> rc, stdout |-> out]

\* The compiler run with check=False: its exit status is never looked at.
compile_cairo_program_unchecked(program, output) ==
    \E rc \in ReturnCodes :
        /\ calls' = Append(calls, Call("cairo-compile",
                                       [program |-> program, output |-> output], rc, <<>>))
        /\ Proceed("compile", "run")
        /\ written' = IF rc = 0 THEN written \cup Wrote("cairo-compile", {output}) ELSE written

\* subprocess.run(["cairo-compile", ...], check=True, capture_output=True)
compile_cairo_program(program, output) ==
    \E rc \in ReturnCodes :
        /\ calls' = Append(calls, Call("cairo-compile",
                                       [program |-> program, output |-> output], rc, <<>>))
        /\ IF rc # 0
           THEN Raise("compile", "CalledProcessError") /\ written' = written
           ELSE Proceed("compile", "run") /\ written' = written \cup Wrote("cairo-compile", {output})

CompileProgram ==
    /\ pc = "compile"
    /\ compile_cairo_program(program_path, compiled_program_path)
    /\ UNCHANGED <<args, ftype, dirs, artifacts, provercfg, parameters, stdout, fri, ext>>

\* The execution tool run without the test of result.returncode.
run_cairo_program_unchecked(compiled, dir, name, program_input) ==
    LET public_input_file == Join(dir, <<name, "_public_input.json">>)
        private_input_file == Join(dir, <<name, "_private_input.json">>)
        memory_file == Join(dir, <<name, "_memory.bin">>)
        trace_file == Join(dir, <<name, "_trace.bin">>)
        command == [program |-> compiled,
                    layout |-> "starknet_with_keccak",
                    air_public_input |-> public_input_file,
                    air_private_input |-> private_input_file,
                    trace_file |-> trace_file,
                    memory_file |-> memory_file,
                    flags |-> {"--print_output", "--proof_mode", "--print_info"},
                    program_input |-> IF GivenPath(program_input) THEN program_input ELSE NoPath]
    IN  \E rc \in ReturnCodes, out \in ToolReports :
          /\ calls' = Append(calls, Call("cairo-run", command, rc, out))
          /\ stdout' = stdout
          /\ written' = IF rc = 0
                        THEN written \cup Wrote("cairo-run", {public_input_file, private_input_file,
                                                              memory_file, trace_file})
                        ELSE written
          /\ LET nb_steps == get_nb_steps(out)
             IN  IF nb_steps.exc # "None"
                 THEN Raise("run", nb_steps.exc) /\ artifacts' = artifacts
                 ELSE /\ Proceed("run", "config")
                      /\ artifacts' = [public_input |-> public_input_file,
                                       private_input |-> private_input_file,
                                       memory |-> memory_file,
                                       trace |-> trace_file,
                                       nb_steps |-> nb_steps.value]

\* run_cairo_program, lines 69-108.
run_cairo_program(compiled, dir, name, program_input) ==
    LET public_input_file == Join(dir, <<name, "_public_input.json">>)
        private_input_file == Join(dir, <<name, "_private_input.json">>)
        memory_file == Join(dir, <<name, "_memory.bin">>)
        trace_file == Join(dir, <<name, "_trace.bin">>)
        command == [program |-> compiled,
                    layout |-> "starknet_with_keccak",
                    air_public_input |-> public_input_file,
                    air_private_input |-> private_input_file,
                    trace_file |-> trace_file,
                    memory_file |-> memory_file,
                    flags |-> {"--print_output", "--proof_mode", "--print_info"},
                    program_input |-> IF GivenPath(program_input) THEN program_input ELSE NoPath]
    IN  \E rc \in ReturnCodes, out \in ToolReports :
          /\ calls' = Append(calls, Call("cairo-run", command, rc, out))
          /\ IF rc # 0
             THEN /\ stdout' = Append(stdout, <<"Run failed">>)
                  /\ Raise("run", "CalledProcessError")
                  /\ UNCHANGED <<written, artifacts>>
             ELSE /\ stdout' = stdout
                  /\ written' = written \cup Wrote("cairo-run", {public_input_file, private_input_file,
                                                       memory_file, trace_file})
                  /\ LET nb_steps == get_nb_steps(out)
                     IN  IF nb_steps.exc # "None"
                         THEN Raise("run", nb_steps.exc) /\ artifacts' = artifacts
                         ELSE /\ Proceed("run", "config")
                              /\ artifacts' = [public_input |-> public_input_file,
                                               private_input |-> private_input_file,
                                               memory |-> memory_file,
                                               trace |-> trace_file,
                                               nb_steps |-> nb_steps.value]

\* main(), lines 242-246: program_input is left at its default, None.
RunProgram ==
    /\ pc = "run"
    /\ run_cairo_program(compiled_program_path, output_dir, program_name, NoPath)
    /\ UNCHANGED <<args, ftype, dirs, provercfg, parameters, fri, ext>>

generate_prover_config(arts, dir) ==
    LET config_file == Join(dir, <<"cpu_air_prover_config", ".json">>)
        parameter_file == Join(dir, <<"cpu_air_params", ".json">>)
        fri_step_list == compute_fri_step_list(arts.nb_steps, LastLayerDegreeBound)
    IN  IF fri_step_list.exc # "None"
        THEN /\ Raise("config", fri_step_list.exc)
             /\ UNCHANGED <<written, parameters, provercfg>>
        ELSE /\ Proceed("config", "prove")
             /\ parameters' = [field |-> "PrimeField0",
                               fri_step_list |-> fri_step_list.value,
                               last_layer_degree_bound |-> LastLayerDegreeBound,
                               n_queries |-> NQueries,
                               proof_of_work_bits |-> ProofOfWorkBits,
                               log_n_cosets |-> LogNCosets]
             /\ written' = written \cup Wrote("generate_prover_config", {config_file, parameter_file})
             /\ provercfg' = <<config_file, parameter_file>>

GenerateConfig ==
    /\ pc = "config"
    /\ generate_prover_config(artifacts, output_dir)
    /\ UNCHANGED <<args, ftype, dirs, calls, artifacts, stdout, fri, ext>>

\* The prover invoked with the public and private input files exchanged.
prove_cairo_program_swapped(arts, prover_config, prover_parameters, output_proof_path) ==
    \E rc \in ReturnCodes :
        /\ calls' = Append(calls, Call("cpu_air_prover",
                                       [out_file |-> output_proof_path,
                                        private_input_file |-> arts.public_input,
                                        public_input_file |-> arts.private_input,
                                        prover_config_file |-> prover_config,
                                        parameter_file |-> prover_parameters], rc, <<>>))
        /\ IF rc # 0
           THEN /\ stdout' = Append(stdout, <<"Could not prove program">>)
                /\ Raise("prove", "CalledProcessError")
                /\ written' = written
           ELSE /\ stdout' = Append(stdout, <<"Proof successfully generated", proof_file>>)
                /\ Proceed("prove", "done")
                /\ written' = written \cup Wrote("cpu_air_prover", {output_proof_path})

\* prove_cairo_program, lines 198-213, and the report of main(), line 260.
prove_cairo_program(arts, prover_config, prover_parameters, output_proof_path) ==
    \E rc \in ReturnCodes :
        /\ calls' = Append(calls, Call("cpu_air_prover",
                                       [out_file |-> output_proof_path,
                                        private_input_file |-> arts.private_input,
                                        public_input_file |-> arts.public_input,
                                        prover_config_file |-> prover_config,
                                        parameter_file |-> prover_parameters], rc, <<>>))
        /\ IF rc # 0
           THEN /\ stdout' = Append(stdout, <<"Could not prove program">>)
                /\ Raise("prove", "CalledProcessError")
                /\ written' = written
           ELSE \* main(), line 260
                /\ stdout' = Append(stdout, <<"Proof successfully generated", proof_file>>)
                /\ Proceed("prove", "done")
                /\ written' = written \cup Wrote("cpu_air_prover", {output_proof_path})

ProveProgram ==
    /\ pc = "prove"
    /\ prove_cairo_program(artifacts, provercfg[1], provercfg[2], proof_file)
    /\ UNCHANGED <<args, ftype, dirs, artifacts, provercfg, parameters, fri, ext>>

(***************************************************************************)
(* Specifications.                                                         *)
(***************************************************************************)
IdleFri == [nb_steps |-> 1, last_layer_degree_bound |-> 1, result |-> NoValue, pc |-> "idle"]
IdleExt == [lines |-> <<>>, run_stdout |-> <<>>, result |-> NoValue, pc |-> "idle"]

IdleDriver ==
    /\ pc = "idle"
    /\ args = NoValue
    /\ ftype = NoValue
    /\ dirs = {}
    /\ written = {}
    /\ calls = <<>>
    /\ stages = <<>>
    /\ artifacts = NoValue
    /\ provercfg = NoValue
    /\ parameters = NoValue
    /\ exc = "None"
    /\ stdout = <<>>

\* One run of the driver.
Init == InitDriver /\ fri = IdleFri /\ ext = IdleExt
Next ==
    \/ ValidateInputs
    \/ MakeOutputDir
    \/ CopyProgram
    \/ CompileProgram
    \/ RunProgram
    \/ GenerateConfig
    \/ ProveProgram
Spec == Init /\ [][Next]_vars

\* compute_fri_step_list on its own.
FriInit == IdleDriver /\ InitFri /\ ext = IdleExt
FriNext == FriCall /\ UNCHANGED <<pipelineVars, ext>>
SpecFri == FriInit /\ [][FriNext]_vars

\* get_nb_steps on its own.
ExtInit == IdleDriver /\ InitExt /\ fri = IdleFri
ExtNext == ExtCall /\ UNCHANGED <<pipelineVars, fri>>
SpecExt == ExtInit /\ [][ExtNext]_vars

(***************************************************************************)
(* Properties of compute_fri_step_list (specification SpecFri).            *)
(***************************************************************************)
\* total = ceil(log2(stepCount)) + 4 - ceil(log2(lastLayerDegreeBound)), exactly.
ExactTotal == CeilLog2(fri.nb_steps) + 4 - CeilLog2(fri.last_layer_degree_bound)

FriReturned == fri.pc = "returned" /\ fri.result.exc = "None"

\* C1: whenever total is positive, the returned sequence sums to exactly total.
C1_SumEqualsTotal ==
    (fri.pc = "returned" /\ ExactTotal > 0)
        => (FriReturned /\ SeqSum(fri.result.value) = ExactTotal)

\* C2: whenever total is zero or negative, the call returns the empty sequence
\* and does not raise.
C2_EmptyWhenNotPositive ==
    (fri.pc = "returned" /\ ExactTotal <= 0)
        => (FriReturned /\ fri.result.value = <<>>)

\* C3: the returned sequence is floor(total/4) copies of 4 followed by total mod 4
\* when that remainder is positive; so every element is in 1..4, every element but
\* the last is 4, and a last element other than 4 is in 1..3.
C3_GreedyShape ==
    fri.pc = "returned" =>
        /\ FriReturned
        /\ LET s == fri.result.value
               q == ExactTotal \div 4
               r == ExactTotal % 4
           IN  /\ Len(s) = (IF q > 0 THEN q ELSE 0) + (IF r > 0 THEN 1 ELSE 0)
               /\ \A i \in 1..Len(s) : s[i] \in 1..4
               /\ \A i \in 1..Len(s) : (i <= q) => s[i] = 4
               /\ (r > 0) => s[Len(s)] = r
               /\ \A i \in 1..(Len(s) - 1) : s[i] = 4
               /\ (s # <<>> /\ s[Len(s)] # 4) => s[Len(s)] \in 1..3

(***************************************************************************)
(* Properties of get_nb_steps (specification SpecExt).                     *)
(***************************************************************************)
\* The line begins with "Number of steps: " followed by at least one digit.
StepLine(l) ==
    /\ Len(l) >= Len(PREFIX) + 1
    /\ \A j \in 1..Len(PREFIX) : l[j] = PREFIX[j]
    /\ l[Len(PREFIX) + 1] \in {"0", "1", "2", "3", "4", "5", "6", "7", "8", "9"}

\* The number of digits that follow the label, and the number they write.
StepDigits(l) ==
    CHOOSE k \in 0..Len(l) :
        /\ \A j \in 1..k : Len(PREFIX) + j <= Len(l) /\ IsDigit(l[Len(PREFIX) + j])
        /\ (Len(PREFIX) + k + 1 <= Len(l)) => ~IsDigit(l[Len(PREFIX) + k + 1])

RECURSIVE Pow10(_)
Pow10(k) == IF k = 0 THEN 1 ELSE 10 * Pow10(k - 1)

RECURSIVE Decimal(_, _, _)
Decimal(l, k, j) ==
    IF j > k THEN 0
    ELSE DigitVal[l[Len(PREFIX) + j]] * Pow10(k - j) + Decimal(l, k, j + 1)

StepValue(l) == Decimal(l, StepDigits(l), 1)

StepLineIndexes == {i \in 1..Len(ext.lines) : StepLine(ext.lines[i])}
FirstStepLine == CHOOSE i \in StepLineIndexes : \A j \in StepLineIndexes : i <= j

\* C9: get_nb_steps returns the number of the first line that begins with
\* "Number of steps: <digits>", whatever follows the digits and whatever lines
\* come later; with no such line it raises instead of returning.
C9_FirstMatchingLine ==
    ext.pc = "returned" =>
        IF StepLineIndexes = {}
        THEN ext.result.exc = "ValueError"
        ELSE /\ ext.result.exc = "None"
             /\ ext.result.value = StepValue(ext.lines[FirstStepLine])

\* A report whose first step-count line has trailing text and is followed by a
\* step-count line with another number; the first number is returned.
C9_Witness ==
    /\ ext.pc = "returned"
    /\ ext.result.exc = "None"
    /\ ext.result.value = 777
    /\ Len(ext.lines) = 2
    /\ ext.lines[1] = PREFIX \o <<"7", "7", "7">> \o <<" ", "(", "x", ")">>
    /\ ext.lines[2] = PREFIX \o <<"1", "2">>

(***************************************************************************)
(* Properties of the driver (specification Spec).                          *)
(***************************************************************************)
StageOrder == <<"validate", "mkdir", "copy", "compile", "run", "config", "prove">>
ToolOrder == <<"cairo-compile", "cairo-run", "cpu_air_prover">>

Started(name) == \E i \in 1..Len(stages) : stages[i].name = name
Succeeded(name) == \E i \in 1..Len(stages) : stages[i].name = name /\ stages[i].ok
CallsTo(tool) == {i \in 1..Len(calls) : calls[i].tool = tool}
SuccessReported ==
    \E i \in 1..Len(stdout) : stdout[i][1] = "Proof successfully generated"

\* C4: the stages start in the fixed order, each only after the one before it
\* succeeded; each tool is invoked at most once, in the stage that owns it; and
\* success is reported only after the prover exited with status zero.
C4_StrictOrder ==
    /\ Len(stages) <= Len(StageOrder)
    /\ \A i \in 1..Len(stages) : stages[i].name = StageOrder[i]
    /\ \A i \in 1..(Len(stages) - 1) : stages[i].ok
    /\ Len(calls) <= Len(ToolOrder)
    /\ \A i \in 1..Len(calls) : calls[i].tool = ToolOrder[i]
    /\ \A i \in 1..(Len(calls) - 1) : calls[i].returncode = 0
    /\ Cardinality(CallsTo("cairo-compile")) = (IF Started("compile") THEN 1 ELSE 0)
    /\ Cardinality(CallsTo("cairo-run")) = (IF Started("run") THEN 1 ELSE 0)
    /\ Cardinality(CallsTo("cpu_air_prover")) = (IF Started("prove") THEN 1 ELSE 0)
    /\ SuccessReported =>
          /\ Len(calls) = 3
          /\ \A i \in 1..3 : calls[i].returncode = 0
          /\ Succeeded("config")
          /\ stdout[Len(stdout)] = <<"Proof successfully generated", proof_file>>

\* A complete run: three tools invoked, success reported.
C4_Witness ==
    /\ pc = "done"
    /\ Len(calls) = 3
    /\ Len(stages) = 7
    /\ SuccessReported

ConfigFiles == {Join(output_dir, <<"cpu_air_prover_config", ".json">>),
                Join(output_dir, <<"cpu_air_params", ".json">>)}

ExecutionFailed ==
    \E i \in CallsTo("cairo-run") :
        \/ calls[i].returncode # 0
        \/ \A j \in 1..Len(splitlines(calls[i].stdout)) :
              ~StepLine(splitlines(calls[i].stdout)[j])

CompileFailed == \E i \in CallsTo("cairo-compile") : calls[i].returncode # 0

\* C5: a failed stage is the last stage and the run does not report success; a
\* failed execution (non-zero exit or no step-count line) means no configuration
\* document, no prover invocation and no proof file; a failed compilation means
\* no execution and no prover invocation; what earlier stages wrote stays.
C5_FailureAborts ==
    /\ \A i \in 1..Len(stages) : ~stages[i].ok => (i = Len(stages) /\ pc = "failed")
    /\ \A i \in 1..Len(calls) : calls[i].returncode # 0 => (i = Len(calls) /\ pc = "failed")
    /\ pc = "failed" =>
          /\ ~SuccessReported
          /\ exc # "None"
          /\ WrittenBy("cpu_air_prover") = {}
    /\ ExecutionFailed =>
          /\ pc = "failed"
          /\ WrittenBy("generate_prover_config") = {}
          /\ parameters = NoValue
          /\ CallsTo("cpu_air_prover") = {}
          /\ compiled_program_path \in WrittenBy("cairo-compile")
    /\ CompileFailed =>
          /\ CallsTo("cairo-run") = {}
          /\ CallsTo("cpu_air_prover") = {}
    /\ (pc = "failed" /\ Started("prove")) =>
          /\ ConfigFiles \subseteq WrittenBy("generate_prover_config")
          /\ Cardinality(WrittenBy("cairo-run")) = 4

\* The execution tool exited non-zero after a successful compilation.
C5_Witness ==
    /\ pc = "failed"
    /\ \E i \in CallsTo("cairo-run") : calls[i].returncode # 0 /\ calls[i].stdout # <<>>
    /\ compiled_program_path \in WrittenPaths

\* C6: a given program-input path is passed to the execution tool; without one
\* the tool gets no program-input argument.
C6_ProgramInputForwarded ==
    \A i \in CallsTo("cairo-run") : calls[i].argv.program_input = args.program_input

InvalidInput ==
    \/ ftype.program # "file"
    \/ GivenPath(args.program_input) /\ ftype.program_input # "file"

\* C7: with an invalid source or program-input path the run fails with the
\* invalid-input error and has no side effect: no directory, no file, no tool.
C7_InvalidInputNoSideEffect ==
    InvalidInput =>
        /\ pc \in {"validate", "failed"}
        /\ pc = "failed" => exc = "RuntimeError"
        /\ dirs = {}
        /\ written = {}
        /\ calls = <<>>

\* A valid program with a program input that is not a file, output directory absent.
C7_Witness ==
    /\ pc = "failed"
    /\ exc = "RuntimeError"
    /\ ftype.program = "file"
    /\ GivenPath(args.program_input)
    /\ ftype.program_input # "file"
    /\ GivenDir(args.output_dir)
    /\ ftype.output_dir = "missing"

\* C8: the step count of every ExecutionArtifacts is positive.
C8_StepCountPositive ==
    artifacts # NoValue => artifacts.nb_steps > 0

\* C10: the prover gets the public and private input paths the execution tool
\* was given, the execution tool gets the compiler's output path, the prover gets
\* the two paths the configuration was written to, and every one of these paths
\* and the proof path is directly inside the output directory.
C10_PathConsistency ==
    CallsTo("cpu_air_prover") # {} =>
        LET compile == calls[1].argv
            run == calls[2].argv
            prove == calls[3].argv
        IN  /\ prove.public_input_file = run.air_public_input
            /\ prove.private_input_file = run.air_private_input
            /\ run.program = compile.output
            /\ {prove.prover_config_file, prove.parameter_file}
                   = WrittenBy("generate_prover_config")
            /\ prove.prover_config_file # prove.parameter_file
            /\ \A p \in {compile.output, run.program, run.air_public_input,
                         run.air_private_input, run.trace_file, run.memory_file,
                         prove.public_input_file, prove.private_input_file,
                         prove.prover_config_file, prove.parameter_file,
                         prove.out_file} : p.dir = args.output_dir
            /\ prove.out_file = proof_file

\* The prover ran for a program that lives outside the output directory.
C10_Witness ==
    /\ pc = "done"
    /\ args.program.dir # args.output_dir
    /\ proof_file \in WrittenBy("cpu_air_prover")

====
